---- MODULE Spec2Model ----
(***************************************************************************)
(* TrueNAS VM Manager (truenas-vm-manager.py): the provisioning and        *)
(* decommission orchestrator as a state machine.  A step of the model is   *)
(* one remote call of the program (client.call) together with the local    *)
(* control flow around it, or a derivation that makes no remote call.      *)
(*                                                                         *)
(* Python strings that the program inspects or builds (VM names, prefixes, *)
(* zvol names) are sequences of one-character strings; dictionaries are    *)
(* functions whose DOMAIN is the set of keys present; dictionaries that    *)
(* the program only iterates by .values() are the sequence of their values *)
(* in declared order.                                                      *)
(***************************************************************************)
EXTENDS Integers, Sequences, FiniteSets, TLC

VARIABLES
    pc,          \* position of the control flow of main()
    action,      \* args.action
    config,      \* the configuration document, as yaml.safe_load returned it
    templates,   \* TemplateManager.templates: kind -> blueprint
    env,         \* whether the four environment variables are all set
    client,      \* transport handle of self.client: "none", "open", "closed",
                 \* or "close_failed" when client.close() was called and raised
    remote,      \* the VMs of the remote system, in vm.query order
    nextId,      \* the next id the remote system assigns
    calls,       \* the remote calls issued in this run, in order, with outcome
    failures,    \* number of remote calls that failed in this run
    vm_type,     \* create_vm_type: vm_type of the latest call; "none" before
    idx,         \* create_vm_type: loop variable idx
    vm_id,       \* _create_single_vm: vm_id
    stage,       \* _create_vm_devices: the device group being attached
    k,           \* _create_vm_devices: position inside the NIC / disk loop
    pending,     \* _create_single_vm: the exception e being handled (line 228)
    managed_vms, \* destroy_managed_vms: managed_vms
    pos,         \* destroy_managed_vms: loop position in managed_vms
    attempts,    \* history: the calls of _create_single_vm and how each ended
    exc,         \* the exception that left the body of the with statement
    exitCode,    \* exit status of the process; -1 while it runs
    runs,        \* number of runs of the program so far
    prev         \* history: summary of the previous run and the remote system it left

vars == <<pc, action, config, templates, env, client, remote, nextId, calls, failures,
          vm_type, idx, vm_id, stage, k, pending, managed_vms, pos, attempts,
          exc, exitCode, runs, prev>>

(***************************************************************************)
(* Bounds of the model.                                                     *)
(***************************************************************************)
MaxCount == 3      \* largest total of the two configured counts
MaxNics == 1       \* largest number of entries of a type's network mapping
MaxDisks == 2      \* largest number of entries of a type's disk mapping
MaxFail == 2       \* largest number of failing remote calls in one run
MaxRuns == 3       \* largest number of runs of the program, one after the other
MaxPre == 2        \* largest number of VMs on the remote system at the start
MaxBatch == 11     \* largest controlplane count of a run against a remote that never fails

(***************************************************************************)
(* Strings.                                                                 *)
(***************************************************************************)
S_controlplane == <<"c","o","n","t","r","o","l","p","l","a","n","e">>
S_worker == <<"w","o","r","k","e","r">>
S_other01 == <<"o","t","h","e","r","0","1">>
S_work == <<"w","o","r","k">>
S_myworker01 == <<"m","y","w","o","r","k","e","r","0","1">>
S_worker01 == <<"w","o","r","k","e","r","0","1">>
S_controlplane01 == S_controlplane \o <<"0","1">>
S_tank == <<"t","a","n","k">>
S_iso == <<"/","i","s","o">>

DigitChars == <<"0","1","2","3","4","5","6","7","8","9">>

\* str(n) for an integer n >= 0
RECURSIVE Decimal(_)
Decimal(n) ==
    IF n < 10 THEN <<DigitChars[n + 1]>>
    ELSE Decimal(n \div 10) \o <<DigitChars[(n % 10) + 1]>>

\* f"{n:02d}" for an integer n >= 0: zero padded to a width of at least two
Format02d(n) == IF n < 10 THEN <<"0">> \o Decimal(n) ELSE Decimal(n)

\* prefix in name: the prefix at any position of the name
startswith_Anywhere(name, prefix) ==
    \E i \in 0..(Len(name) - Len(prefix)) :
        SubSeq(name, i + 1, i + Len(prefix)) = prefix

\* name.startswith(prefix)
startswith(name, prefix) ==
    /\ Len(prefix) <= Len(name)
    /\ SubSeq(name, 1, Len(prefix)) = prefix

(***************************************************************************)
(* Python values.                                                           *)
(***************************************************************************)
None == [py_none |-> TRUE]
EmptyDict == [x \in {} |-> TRUE]

\* bool(v) is False for None and for an empty dictionary
Falsy(v) == DOMAIN v = {} \/ "py_none" \in DOMAIN v

\* d.get(key): None when the key is absent
Get(d, key) == IF key \in DOMAIN d THEN d[key] ELSE None

\* d.get(key, default)
GetOr(d, key, default) == IF key \in DOMAIN d THEN d[key] ELSE default

(***************************************************************************)
(* Exceptions: the class and the message, the message as the sequence of    *)
(* the parts an f-string put together.                                      *)
(***************************************************************************)
NoExc == [cls |-> "none", msg |-> <<>>]
TrueNASError(m) == [cls |-> "TrueNASError", msg |-> m]
KeyError(key) == [cls |-> "KeyError", msg |-> <<key>>]
\* what client.call raises when the remote operation op fails
CallError(op) == [cls |-> "ClientException", msg |-> <<op>>]

(***************************************************************************)
(* Inputs of a run: the configuration document, the template files and the *)
(* environment.                                                             *)
(***************************************************************************)
Storage == [pool_path |-> S_tank, cdrom_path |-> S_iso]

\* the i-th value of a network mapping and of a disk mapping (size in GB)
NicAttach(i) == <<"br", i>>
DiskSizeGb(i) == IF i % 2 = 0 THEN 20000 * i ELSE 10 * i

TypeSection(count, nn, nd) ==
    [count |-> count, cpu |-> 2, memory |-> 4096,
     network |-> [i \in 1..nn |-> NicAttach(i)],
     disk |-> [i \in 1..nd |-> DiskSizeGb(i)]]

Document(c1, c2, nn, nd) ==
    [storage |-> Storage,
     controlplane |-> TypeSection(c1, nn, nd),
     worker |-> TypeSection(c2, nn, nd)]

Layouts == {<<nn, nd>> : nn \in {0, MaxNics}, nd \in {0, MaxDisks}}

\* well-formed documents: every pair of counts with one disk and no NIC per
\* VM, every layout of NICs and disks with counts of at most one, and a
\* negative count
GoodConfigs ==
    {Document(c1, c2, 0, 1) : c1 \in 0..MaxCount, c2 \in 0..MaxCount}
    \cup {Document(c1, c2, l[1], l[2]) : c1 \in 0..1, c2 \in 0..1, l \in Layouts}
    \cup {Document(-1, 1, MaxNics, MaxDisks)}

\* those with at most MaxCount instances in all
GoodConfigsBounded ==
    {c \in GoodConfigs :
        (IF c.controlplane.count > 0 THEN c.controlplane.count ELSE 0)
        + (IF c.worker.count > 0 THEN c.worker.count ELSE 0) <= MaxCount}

\* a dictionary without the key
Without(d, key) == [x \in (DOMAIN d) \ {key} |-> d[x]]

\* a dictionary with the key set to the value (d[key] = value; d.update)
With(d, key, value) ==
    [x \in (DOMAIN d) \cup {key} |-> IF x = key THEN value ELSE d[x]]

Update(d, u) ==
    [x \in (DOMAIN d) \cup (DOMAIN u) |-> IF x \in DOMAIN u THEN u[x] ELSE d[x]]

BaseDoc == Document(1, 2, MaxNics, MaxDisks)

FileMissing == [py_file_not_found |-> TRUE]
YamlError == [py_yaml_error |-> TRUE]
JsonError == [py_json_error |-> TRUE]

\* documents with one defect
DefectConfigs ==
    {FileMissing, YamlError, None}
    \cup {Without(BaseDoc, key) : key \in {"storage", "controlplane", "worker"}}
    \cup {With(BaseDoc, "storage", None), With(BaseDoc, "storage", EmptyDict)}
    \cup {With(BaseDoc, "storage", Without(Storage, f)) : f \in {"pool_path", "cdrom_path"}}
    \cup {With(BaseDoc, "controlplane", None), With(BaseDoc, "worker", EmptyDict)}
    \cup {With(BaseDoc, "worker", Without(BaseDoc.worker, f)) :
            f \in {"count", "cpu", "memory", "network", "disk"}}
    \cup {With(BaseDoc, "controlplane", Without(BaseDoc.controlplane, f)) :
            f \in {"cpu", "network"}}

Kinds == {"vm", "nic", "disk", "display", "cdrom"}
DType(kind) ==
    CASE kind = "nic" -> "NIC"
      [] kind = "disk" -> "DISK"
      [] kind = "display" -> "DISPLAY"
      [] kind = "cdrom" -> "CDROM"
      [] OTHER -> "unknown"

\* a well-formed template file of the kind
Blueprint(kind) ==
    IF kind = "vm" THEN [bootloader |-> "UEFI", autostart |-> FALSE]
    ELSE [attributes |-> [dtype |-> DType(kind)]]

GoodTemplates == [kind \in Kinds |-> Blueprint(kind)]

\* template files with one defect
DefectTemplates ==
    {With(GoodTemplates, "vm", FileMissing), With(GoodTemplates, "nic", JsonError)}
    \cup {With(GoodTemplates, kind, [name |-> kind]) :
            kind \in {"display", "cdrom", "nic", "disk"}}

VncPassword == <<"s","e","c","r","e","t">>

(***************************************************************************)
(* TemplateManager.                                                         *)
(***************************************************************************)
\* _load_templates: the error of the first file that fails to load, in the
\* order of template_files
LoadOrder == <<"vm", "nic", "disk", "display", "cdrom">>
RECURSIVE LoadTemplatesFrom(_, _)
LoadTemplatesFrom(files, i) ==
    IF i > Len(LoadOrder) THEN NoExc
    ELSE IF files[LoadOrder[i]] = FileMissing
         THEN TrueNASError(<<"Template file not found: ", LoadOrder[i]>>)
    ELSE IF files[LoadOrder[i]] = JsonError
         THEN TrueNASError(<<"Invalid JSON in template file ", LoadOrder[i]>>)
    ELSE LoadTemplatesFrom(files, i + 1)

LoadTemplates(files) == LoadTemplatesFrom(files, 1)

\* the outcome of a derivation: the value, or the exception it raised
Ok(v) == [ok |-> TRUE, val |-> v, err |-> NoExc]
Raised(e) == [ok |-> FALSE, val |-> None, err |-> e]

\* create_vm_spec as called at lines 205-210: vm_config["cpu"] and
\* vm_config["memory"] are evaluated first
create_vm_spec(tpl, name, vm_config) ==
    IF "cpu" \notin DOMAIN vm_config THEN Raised(KeyError("cpu"))
    ELSE IF "memory" \notin DOMAIN vm_config THEN Raised(KeyError("memory"))
    ELSE Ok(Update(tpl["vm"],
                   [name |-> name, cores |-> vm_config["cpu"],
                    threads |-> vm_config["cpu"], memory |-> vm_config["memory"]]))

\* device["attributes"][...] = ...: the overlay of the attributes submapping
Overlay(device, fields) ==
    IF "attributes" \notin DOMAIN device THEN Raised(KeyError("attributes"))
    ELSE Ok(With(device, "attributes", Update(device["attributes"], fields)))

create_display_device(tpl, id, port, password) ==
    Overlay(With(tpl["display"], "vm", id), [port |-> port, password |-> password])

create_cdrom_device(tpl, id, path) ==
    Overlay(With(tpl["cdrom"], "vm", id), [path |-> path])

\* mac is None in every call of the program
create_nic_device(tpl, id, nic_attach) ==
    Overlay(With(tpl["nic"], "vm", id), [nic_attach |-> nic_attach])

create_disk_device(tpl, id, zvol_name, size_bytes) ==
    Overlay(With(tpl["disk"], "vm", id),
            [zvol_name |-> zvol_name, zvol_volsize |-> size_bytes])

\* device.get("attributes", {}).get("dtype", "unknown")
device_type(device) == GetOr(GetOr(device, "attributes", EmptyDict), "dtype", "unknown")

(***************************************************************************)
(* load_configuration: the exception it raises on the document, or NoExc.   *)
(***************************************************************************)
RequiredKeys == <<"storage", "controlplane", "worker">>
StorageRequiredFields == <<"pool_path", "cdrom_path">>

\* the first element of the sequence that is no key of the dictionary, or ""
RECURSIVE FirstMissing(_, _, _)
FirstMissing(keys, d, i) ==
    IF i > Len(keys) THEN ""
    ELSE IF keys[i] \notin DOMAIN d THEN keys[i]
    ELSE FirstMissing(keys, d, i + 1)

load_configuration(doc) ==
    IF doc = FileMissing
    THEN [cls |-> "FileNotFoundError", msg |-> <<"Configuration file not found">>]
    ELSE IF doc = YamlError
    THEN [cls |-> "ValueError", msg |-> <<"Invalid YAML configuration">>]
    ELSE IF doc = None
    THEN [cls |-> "TypeError", msg |-> <<"argument of type 'NoneType' is not iterable">>]
    ELSE IF FirstMissing(RequiredKeys, doc, 1) # ""
    THEN [cls |-> "ValueError",
          msg |-> <<"Missing required configuration section: ",
                    FirstMissing(RequiredKeys, doc, 1)>>]
    ELSE IF doc["storage"] = None
    THEN [cls |-> "TypeError", msg |-> <<"argument of type 'NoneType' is not iterable">>]
    ELSE IF FirstMissing(StorageRequiredFields, doc["storage"], 1) # ""
    THEN [cls |-> "ValueError",
          msg |-> <<"Missing required field in storage configuration: ",
                    FirstMissing(StorageRequiredFields, doc["storage"], 1)>>]
    ELSE NoExc

(***************************************************************************)
(* The remote system, as the calls of the program see it: a call that      *)
(* fails raises and changes nothing; a call that succeeds has its effect.   *)
(***************************************************************************)
\* a call of client.call in the log: ok is whether it returned (or raised),
\* ret what it returned
Call(op, id, arg, ok, ret) == [op |-> op, vm |-> id, arg |-> arg, ok |-> ok, ret |-> ret]

RemoteCreate(r, id, spec) ==
    Append(r, [id |-> id, name |-> spec.name, status |-> "STOPPED", devices |-> <<>>])

RemoteAttach(r, device) ==
    [i \in DOMAIN r |->
        IF r[i].id = device.vm
        THEN [r[i] EXCEPT !.devices = Append(@, device_type(device))]
        ELSE r[i]]

RemoteSetStatus(r, id, status) ==
    [i \in DOMAIN r |-> IF r[i].id = id THEN [r[i] EXCEPT !.status = status] ELSE r[i]]

RemoteDelete(r, id) == SelectSeq(r, LAMBDA v : v.id # id)

\* vm.query: the VMs as {id, name, ...}
RemoteQuery(r) == r

(***************************************************************************)
(* create_vm_type and _create_single_vm: names, ports, control flow.        *)
(***************************************************************************)
TypeChars(t) == IF t = "controlplane" THEN S_controlplane ELSE S_worker

\* main, lines 386-387: the vnc_start_port of each type
VncStartPort(t) == IF t = "controlplane" THEN 5910 ELSE 5920

\* line 192: vm_name = f"{vm_type}{idx + 1:02d}"
VmName(t, i) == TypeChars(t) \o Format02d(i + 1)

\* line 193 without the + 1: the port of the zero-based index
VncPort_ZeroBased(t, i) == VncStartPort(t) + i

\* line 193: vnc_port = vnc_start_port + idx + 1
VncPort(t, i) == VncStartPort(t) + i + 1

\* Python integers are unbounded: an integer that may pass 2^31 is the
\* sequence of its digits in base 2^15, least significant first
LimbBase == 32768

RECURSIVE MulCarry(_, _, _, _)
MulCarry(x, m, i, carry) ==
    IF i > Len(x) THEN (IF carry = 0 THEN <<>> ELSE <<carry>>)
    ELSE <<(x[i] * m + carry) % LimbBase>>
         \o MulCarry(x, m, i + 1, (x[i] * m + carry) \div LimbBase)

\* x * m for a long integer x and 0 <= m < 2^15
MulSmall(x, m) == MulCarry(x, m, 1, 0)

\* line 166 with decimal gigabytes: size_gb * (1000 ** 3)
SizeBytes_Decimal(size_gb) ==
    MulSmall(MulSmall(MulSmall(<<1000>>, 1000), 1000), size_gb)

\* line 166: size_bytes = size_gb * (1024 ** 3)
SizeBytes(size_gb) == MulSmall(MulSmall(MulSmall(<<1024>>, 1024), 1024), size_gb)

\* line 167: zvol_name = f"{storage_pool_path}/{vm_name}-disk{disk_idx}"
ZvolName(pool_path, vm_name, disk_idx) ==
    pool_path \o <<"/">> \o vm_name \o <<"-","d","i","s","k">> \o Decimal(disk_idx)

\* line 232 and line 271: the options of vm.delete
DeleteFlags == [zvols |-> TRUE, force |-> TRUE]

Running == [cls |-> "running", msg |-> <<>>]

\* main, lines 385-389: what follows the return of create_vm_type(t)
ReturnFromCreateVmType(t) ==
    IF t = "controlplane"
    THEN [pc |-> "create_vm_type", vm_type |-> "worker", idx |-> 0, exc |-> NoExc]
    ELSE [pc |-> "logout", vm_type |-> t, idx |-> 0, exc |-> NoExc]

\* the exception e leaves create_vm_type(t) and with it the body of the with
\* statement (line 383)
RaiseFromBody(e, t) == [pc |-> "logout", vm_type |-> t, idx |-> 0, exc |-> e]

\* a loop without the except clause
BatchCatches_Nothing(e) == FALSE

\* line 197: except TrueNASError
BatchCatches(e) == e.cls = "TrueNASError"

\* a loop that a failed instance ends
AfterInstance_Abort(e, t, i, count) ==
    IF e = NoExc
    THEN IF i + 1 < count
         THEN [pc |-> "single", vm_type |-> t, idx |-> i + 1, exc |-> NoExc]
         ELSE ReturnFromCreateVmType(t)
    ELSE IF BatchCatches(e) THEN ReturnFromCreateVmType(t)
    ELSE RaiseFromBody(e, t)

\* lines 191-199: _create_single_vm of index i (zero based) ended with e
\* (NoExc: it returned); count is the count of the type
AfterInstance(e, t, i, count) ==
    IF e = NoExc \/ BatchCatches(e)
    THEN IF i + 1 < count
         THEN [pc |-> "single", vm_type |-> t, idx |-> i + 1, exc |-> NoExc]
         ELSE ReturnFromCreateVmType(t)
    ELSE RaiseFromBody(e, t)

\* lines 159-165: what follows the attach of the device at (stage, j):
\* the next device to attach, the start call, or the exception raised on the way
EnterDisks(j, vm_config) ==
    IF j <= Len(vm_config["disk"])
    THEN [pc |-> "devices", stage |-> "disk", k |-> j, err |-> NoExc]
    ELSE [pc |-> "vm_start", stage |-> "start", k |-> 0, err |-> NoExc]

AfterNics(vm_config, storage_config) ==
    IF "pool_path" \notin DOMAIN storage_config
    THEN [pc |-> "cleanup", stage |-> "disk", k |-> 0, err |-> KeyError("pool_path")]
    ELSE IF "disk" \notin DOMAIN vm_config
    THEN [pc |-> "cleanup", stage |-> "disk", k |-> 0, err |-> KeyError("disk")]
    ELSE EnterDisks(1, vm_config)

EnterNics(j, vm_config, storage_config) ==
    IF j <= Len(vm_config["network"])
    THEN [pc |-> "devices", stage |-> "nic", k |-> j, err |-> NoExc]
    ELSE AfterNics(vm_config, storage_config)

\* device groups in the order display, cdrom, disks, NICs
Advance_DisksFirst(st, j, vm_config, storage_config) ==
    CASE st = "display" -> [pc |-> "devices", stage |-> "cdrom", k |-> 0, err |-> NoExc]
      [] st = "cdrom" ->
            IF 1 <= Len(vm_config["disk"])
            THEN [pc |-> "devices", stage |-> "disk", k |-> 1, err |-> NoExc]
            ELSE EnterNics(1, vm_config, [x \in {} |-> 0])
      [] st = "disk" ->
            IF j + 1 <= Len(vm_config["disk"])
            THEN [pc |-> "devices", stage |-> "disk", k |-> j + 1, err |-> NoExc]
            ELSE IF 1 <= Len(vm_config["network"])
            THEN [pc |-> "devices", stage |-> "nic", k |-> 1, err |-> NoExc]
            ELSE [pc |-> "vm_start", stage |-> "start", k |-> 0, err |-> NoExc]
      [] OTHER ->
            IF j + 1 <= Len(vm_config["network"])
            THEN [pc |-> "devices", stage |-> "nic", k |-> j + 1, err |-> NoExc]
            ELSE [pc |-> "vm_start", stage |-> "start", k |-> 0, err |-> NoExc]

Advance(st, j, vm_config, storage_config) ==
    CASE st = "display" -> [pc |-> "devices", stage |-> "cdrom", k |-> 0, err |-> NoExc]
      [] st = "cdrom" ->
            IF "network" \notin DOMAIN vm_config
            THEN [pc |-> "cleanup", stage |-> "nic", k |-> 0, err |-> KeyError("network")]
            ELSE EnterNics(1, vm_config, storage_config)
      [] st = "nic" -> EnterNics(j + 1, vm_config, storage_config)
      [] OTHER -> EnterDisks(j + 1, vm_config)

(***************************************************************************)
(* Actions.  Every remote call may fail while fewer than MaxFail calls have *)
(* failed in the run.                                                       *)
(***************************************************************************)
static == <<action, config, templates, env, runs, prev>>

MayFail == failures < MaxFail

SetCtl(c) ==
    /\ pc' = c.pc
    /\ vm_type' = c.vm_type
    /\ idx' = c.idx
    /\ exc' = c.exc

\* an exit code other than 0 for a run that raised nothing fatal
ExitCodeFor_Strict(e) == IF e = NoExc /\ failures = 0 THEN 0 ELSE 1

\* the except clauses of main (lines 393-401) all end in sys.exit(1)
ExitCodeFor(e) == IF e = NoExc THEN 0 ELSE 1

Count(t) == GetOr(config[t], "count", 0)

\* _create_single_vm ends with e after the calls cs: the attempt is closed
CloseAttempt(e, cs) ==
    attempts' = [attempts EXCEPT ![Len(attempts)] =
                    [@ EXCEPT !.result = e, !.last = Len(cs)]]

\* main, lines 371-380: environment, configuration, templates
Main_Setup ==
    /\ pc = "start"
    /\ LET e == IF ~env
                THEN [cls |-> "ValueError",
                      msg |-> <<"Missing required environment variables">>]
                ELSE IF load_configuration(config) # NoExc
                THEN load_configuration(config)
                ELSE LoadTemplates(templates)
       IN IF e = NoExc
          THEN pc' = "connect" /\ UNCHANGED <<exc, exitCode>>
          ELSE pc' = "done" /\ exc' = e /\ exitCode' = ExitCodeFor(e)
    /\ UNCHANGED <<static, client, remote, nextId, calls, failures, vm_type, idx,
                   vm_id, stage, k, pending, managed_vms, pos, attempts>>

\* connect, line 119: Client(...)
Connect_Open ==
    /\ pc = "connect"
    /\ \/ /\ client' = "open"
          /\ pc' = "login"
          /\ UNCHANGED <<failures, exc, exitCode>>
       \/ /\ MayFail
          /\ failures' = failures + 1
          /\ exc' = TrueNASError(<<"Connection failed: ", "connect">>)
          /\ exitCode' = 1
          /\ pc' = "done"
          /\ UNCHANGED client
    /\ UNCHANGED <<static, remote, nextId, calls, vm_type, idx, vm_id, stage, k,
                   pending, managed_vms, pos, attempts>>

\* main, lines 385-389: the first statement of the body of the with statement
BodyStart(a) ==
    IF a = "create"
    THEN [pc |-> "create_vm_type", vm_type |-> "controlplane", idx |-> 0, exc |-> NoExc]
    ELSE [pc |-> "query", vm_type |-> "none", idx |-> 0, exc |-> NoExc]

\* connect without the test of line 120: the value auth.login returns is
\* not looked at
Connect_Login_Unchecked ==
    /\ pc = "login"
    /\ \/ /\ \E ret \in BOOLEAN :
                calls' = Append(calls, Call("auth.login", 0, <<>>, TRUE, ret))
          /\ SetCtl(BodyStart(action))
          /\ UNCHANGED <<failures, exitCode>>
       \/ /\ MayFail
          /\ failures' = failures + 1
          /\ calls' = Append(calls, Call("auth.login", 0, <<>>, FALSE, None))
          /\ exc' = TrueNASError(<<"Connection failed: ">> \o CallError("auth.login").msg)
          /\ exitCode' = 1
          /\ pc' = "done"
          /\ UNCHANGED <<vm_type, idx>>
    /\ UNCHANGED <<static, client, remote, nextId, vm_id, stage, k, pending,
                   managed_vms, pos, attempts>>

\* connect, lines 120-124: auth.login returns true, returns false, or raises
Connect_Login ==
    /\ pc = "login"
    /\ \/ /\ calls' = Append(calls, Call("auth.login", 0, <<>>, TRUE, TRUE))
          /\ SetCtl(BodyStart(action))
          /\ UNCHANGED <<failures, exitCode>>
       \/ /\ MayFail
          /\ failures' = failures + 1
          /\ \/ /\ calls' = Append(calls, Call("auth.login", 0, <<>>, TRUE, FALSE))
                /\ exc' = TrueNASError(<<"Connection failed: ", "Authentication failed">>)
             \/ /\ calls' = Append(calls, Call("auth.login", 0, <<>>, FALSE, None))
                /\ exc' = TrueNASError(<<"Connection failed: ">> \o CallError("auth.login").msg)
          /\ exitCode' = 1
          /\ pc' = "done"
          /\ UNCHANGED <<vm_type, idx>>
    /\ UNCHANGED <<static, client, remote, nextId, vm_id, stage, k, pending,
                   managed_vms, pos, attempts>>

\* create_vm_type, lines 173-189
CreateVmType_Enter ==
    /\ pc = "create_vm_type"
    /\ LET vm_config == Get(config, vm_type)
           storage_config == Get(config, "storage")
       IN SetCtl(
            IF Falsy(vm_config)
            THEN RaiseFromBody(TrueNASError(<<"VM type not found in configuration: ", vm_type>>),
                               vm_type)
            ELSE IF Falsy(storage_config)
            THEN RaiseFromBody(TrueNASError(<<"Storage configuration not found in config">>),
                               vm_type)
            ELSE IF GetOr(vm_config, "count", 0) <= 0
            THEN ReturnFromCreateVmType(vm_type)
            ELSE IF FirstMissing(StorageRequiredFields, storage_config, 1) # ""
            THEN RaiseFromBody(KeyError(FirstMissing(StorageRequiredFields, storage_config, 1)),
                               vm_type)
            ELSE [pc |-> "single", vm_type |-> vm_type, idx |-> 0, exc |-> NoExc])
    /\ UNCHANGED <<static, client, remote, nextId, calls, failures, vm_id, stage, k,
                   pending, managed_vms, pos, attempts, exitCode>>

\* create_vm_type, lines 191-196, and _create_single_vm, lines 205-210
Single_Begin ==
    /\ pc = "single"
    /\ LET name == VmName(vm_type, idx)
           d == create_vm_spec(templates, name, config[vm_type])
           att == [vm_type |-> vm_type, index |-> idx + 1, name |-> name,
                   port |-> VncPort(vm_type, idx), first |-> Len(calls) + 1,
                   last |-> 0, vm_id |-> 0, result |-> Running]
       IN IF d.ok
          THEN /\ attempts' = Append(attempts, att)
               /\ pc' = "vm_create"
               /\ UNCHANGED <<vm_type, idx, exc>>
          ELSE /\ attempts' = Append(attempts,
                                [att EXCEPT !.result = d.err, !.last = Len(calls)])
               /\ SetCtl(AfterInstance(d.err, vm_type, idx, Count(vm_type)))
    /\ UNCHANGED <<static, client, remote, nextId, calls, failures, vm_id, stage, k,
                   pending, managed_vms, pos, exitCode>>

\* _create_single_vm, lines 213-218
VmCreate ==
    /\ pc = "vm_create"
    /\ LET spec == create_vm_spec(templates, VmName(vm_type, idx), config[vm_type]).val
       IN \/ /\ calls' = Append(calls, Call("vm.create", nextId, spec, TRUE, [id |-> nextId]))
             /\ remote' = RemoteCreate(remote, nextId, spec)
             /\ nextId' = nextId + 1
             /\ vm_id' = nextId
             /\ attempts' = [attempts EXCEPT ![Len(attempts)].vm_id = nextId]
             /\ pc' = "devices"
             /\ stage' = "display"
             /\ UNCHANGED <<failures, vm_type, idx, exc>>
          \/ /\ MayFail
             /\ failures' = failures + 1
             /\ calls' = Append(calls, Call("vm.create", 0, spec, FALSE, None))
             /\ CloseAttempt(TrueNASError(<<"VM creation failed: ">> \o CallError("vm.create").msg),
                             calls')
             /\ SetCtl(AfterInstance(
                         TrueNASError(<<"VM creation failed: ">> \o CallError("vm.create").msg),
                         vm_type, idx, Count(vm_type)))
             /\ UNCHANGED <<remote, nextId, vm_id, stage>>
    /\ UNCHANGED <<static, client, k, pending, managed_vms, pos, exitCode>>

\* _add_device, lines 138-144, as called from _create_vm_devices with the
\* outcome b of the derivation of the device: the derivation raised, or
\* vm.device.create returns, or it raises and _add_device raises TrueNASError.
\* What follows the attach is Advance; an exception goes to line 228.
AddDevice(b) ==
    LET vm_config == config[vm_type]
        storage_config == config["storage"]
    IN  /\ pc = "devices"
        /\ IF ~b.ok
           THEN /\ pending' = b.err
                /\ pc' = "cleanup"
                /\ UNCHANGED <<calls, remote, failures, stage, k>>
           ELSE \/ /\ calls' = Append(calls, Call("vm.device.create", b.val.vm, b.val, TRUE, None))
                   /\ remote' = RemoteAttach(remote, b.val)
                   /\ LET n == Advance(stage, k, vm_config, storage_config)
                      IN /\ pc' = n.pc
                         /\ stage' = n.stage
                         /\ k' = n.k
                         /\ pending' = n.err
                   /\ UNCHANGED failures
                \/ /\ MayFail
                   /\ failures' = failures + 1
                   /\ calls' = Append(calls, Call("vm.device.create", b.val.vm, b.val, FALSE, None))
                   /\ pending' = TrueNASError(<<"Failed to add device ", device_type(b.val), ": ">>
                                              \o CallError("vm.device.create").msg)
                   /\ pc' = "cleanup"
                   /\ UNCHANGED <<remote, stage, k>>
        /\ UNCHANGED <<static, client, nextId, vm_type, idx, vm_id, managed_vms, pos,
                       attempts, exc, exitCode>>

\* _create_vm_devices, lines 149-151
Attach_Display ==
    /\ stage = "display"
    /\ AddDevice(create_display_device(templates, vm_id, VncPort(vm_type, idx), VncPassword))

\* _create_vm_devices, lines 153-156
Attach_Cdrom ==
    /\ stage = "cdrom"
    /\ AddDevice(IF "cdrom_path" \in DOMAIN config["storage"]
                 THEN create_cdrom_device(templates, vm_id, config["storage"]["cdrom_path"])
                 ELSE Raised(KeyError("cdrom_path")))

\* _create_vm_devices, lines 158-161
Attach_Nic ==
    /\ stage = "nic"
    /\ AddDevice(create_nic_device(templates, vm_id, config[vm_type]["network"][k]))

\* _create_vm_devices, lines 163-169: the disk at position k has disk_idx k - 1
Attach_Disk ==
    /\ stage = "disk"
    /\ AddDevice(create_disk_device(templates, vm_id,
                    ZvolName(config["storage"]["pool_path"], VmName(vm_type, idx), k - 1),
                    SizeBytes(config[vm_type]["disk"][k])))

\* _create_single_vm, lines 224-226
VmStart ==
    /\ pc = "vm_start"
    /\ \/ /\ calls' = Append(calls, Call("vm.start", vm_id, <<>>, TRUE, None))
          /\ remote' = RemoteSetStatus(remote, vm_id, "RUNNING")
          /\ CloseAttempt(NoExc, calls')
          /\ SetCtl(AfterInstance(NoExc, vm_type, idx, Count(vm_type)))
          /\ vm_id' = 0
          /\ stage' = "none"
          /\ UNCHANGED <<failures, pending>>
       \/ /\ MayFail
          /\ failures' = failures + 1
          /\ calls' = Append(calls, Call("vm.start", vm_id, <<>>, FALSE, None))
          /\ pending' = CallError("vm.start")
          /\ pc' = "cleanup"
          /\ UNCHANGED <<remote, attempts, vm_type, idx, exc, vm_id, stage>>
    /\ UNCHANGED <<static, client, nextId, k, managed_vms, pos, exitCode>>

\* a cleanup whose own failure replaces the failure it handles
ConfigurationFailed_Masked(e, cleanup_error) ==
    IF cleanup_error = NoExc
    THEN TrueNASError(<<"VM configuration failed: ">> \o e.msg)
    ELSE TrueNASError(<<"VM configuration failed: ">> \o cleanup_error.msg)

\* line 235: the exception _create_single_vm raises after the cleanup, from
\* the exception e it handles and the exception of the cleanup (NoExc: none)
ConfigurationFailed(e, cleanup_error) ==
    TrueNASError(<<"VM configuration failed: ">> \o e.msg)

\* a handler that logs and raises without the delete
CleanupCalls_Forgotten(id, ok) == <<>>

\* a cleanup that tries the delete a second time when it failed
CleanupCalls_Retry(id, ok) ==
    IF ok THEN <<Call("vm.delete", id, DeleteFlags, TRUE, None)>>
    ELSE <<Call("vm.delete", id, DeleteFlags, FALSE, None),
           Call("vm.delete", id, DeleteFlags, FALSE, None)>>

\* lines 231-234: the calls the cleanup of VM id issues, ok the outcome of
\* the delete
CleanupCalls(id, ok) == <<Call("vm.delete", id, DeleteFlags, ok, None)>>

\* _create_single_vm, lines 228-235: the cleanup of the VM
Cleanup ==
    /\ pc = "cleanup"
    /\ \/ /\ calls' = calls \o CleanupCalls(vm_id, TRUE)
          /\ remote' = RemoteDelete(remote, vm_id)
          /\ CloseAttempt(ConfigurationFailed(pending, NoExc), calls')
          /\ SetCtl(AfterInstance(ConfigurationFailed(pending, NoExc),
                                  vm_type, idx, Count(vm_type)))
          /\ UNCHANGED failures
       \/ /\ MayFail
          /\ failures' = failures + 1
          /\ calls' = calls \o CleanupCalls(vm_id, FALSE)
          /\ CloseAttempt(ConfigurationFailed(pending, CallError("vm.delete")), calls')
          /\ SetCtl(AfterInstance(ConfigurationFailed(pending, CallError("vm.delete")),
                                  vm_type, idx, Count(vm_type)))
          /\ UNCHANGED remote
    /\ vm_id' = 0
    /\ stage' = "none"
    /\ k' = 0
    /\ pending' = NoExc
    /\ UNCHANGED <<static, client, nextId, managed_vms, pos, exitCode>>

(***************************************************************************)
(* destroy_managed_vms.                                                     *)
(***************************************************************************)
\* line 240: the default of vm_prefixes, which main relies on
DefaultPrefixes == <<S_controlplane, S_worker>>

\* line 249: any(vm["name"].startswith(prefix) for prefix in vm_prefixes)
IsManaged(vm, vm_prefixes) ==
    \E i \in 1..Len(vm_prefixes) : startswith(vm.name, vm_prefixes[i])

\* a list that is not filtered
ManagedVms_All(vms, vm_prefixes) == vms

\* lines 247-250
ManagedVms(vms, vm_prefixes) == SelectSeq(vms, LAMBDA vm : IsManaged(vm, vm_prefixes))

\* lines 242-256
Destroy_Query ==
    /\ pc = "query"
    /\ \/ /\ calls' = Append(calls, Call("vm.query", 0, <<>>, TRUE, RemoteQuery(remote)))
          /\ managed_vms' = ManagedVms(RemoteQuery(remote), DefaultPrefixes)
          /\ IF managed_vms' = <<>>
             THEN pc' = "logout" /\ pos' = 0
             ELSE pc' = "poweroff" /\ pos' = 1
          /\ UNCHANGED <<failures, exc>>
       \/ /\ MayFail
          /\ failures' = failures + 1
          /\ calls' = Append(calls, Call("vm.query", 0, <<>>, FALSE, None))
          /\ exc' = TrueNASError(<<"Failed to query VMs: ">> \o CallError("vm.query").msg)
          /\ pc' = "logout"
          /\ UNCHANGED <<managed_vms, pos>>
    /\ UNCHANGED <<static, client, remote, nextId, vm_type, idx, vm_id, stage, k,
                   pending, attempts, exitCode>>

\* one try block around both calls: a failed poweroff skips the delete
Destroy_Poweroff_Skip ==
    /\ pc = "poweroff"
    /\ LET id == managed_vms[pos].id
       IN \/ /\ calls' = Append(calls, Call("vm.poweroff", id, <<>>, TRUE, None))
             /\ remote' = RemoteSetStatus(remote, id, "STOPPED")
             /\ pc' = "delete"
             /\ UNCHANGED <<failures, pos>>
          \/ /\ MayFail
             /\ failures' = failures + 1
             /\ calls' = Append(calls, Call("vm.poweroff", id, <<>>, FALSE, None))
             /\ pc' = IF pos < Len(managed_vms) THEN "poweroff" ELSE "logout"
             /\ pos' = IF pos < Len(managed_vms) THEN pos + 1 ELSE 0
             /\ UNCHANGED remote
    /\ UNCHANGED <<static, client, nextId, vm_type, idx, vm_id, stage, k, pending,
                   managed_vms, attempts, exc, exitCode>>

\* lines 258-267
Destroy_Poweroff ==
    /\ pc = "poweroff"
    /\ LET id == managed_vms[pos].id
       IN \/ /\ calls' = Append(calls, Call("vm.poweroff", id, <<>>, TRUE, None))
             /\ remote' = RemoteSetStatus(remote, id, "STOPPED")
             /\ UNCHANGED failures
          \/ /\ MayFail
             /\ failures' = failures + 1
             /\ calls' = Append(calls, Call("vm.poweroff", id, <<>>, FALSE, None))
             /\ UNCHANGED remote
    /\ pc' = "delete"
    /\ UNCHANGED <<static, client, nextId, vm_type, idx, vm_id, stage, k, pending,
                   managed_vms, pos, attempts, exc, exitCode>>

\* line 258: what follows the body of the loop at position p of n
AfterDestroyed(p, n) ==
    IF p < n THEN [pc |-> "poweroff", pos |-> p + 1] ELSE [pc |-> "logout", pos |-> 0]

\* lines 269-274
Destroy_Delete ==
    /\ pc = "delete"
    /\ LET id == managed_vms[pos].id
       IN \/ /\ calls' = Append(calls, Call("vm.delete", id, DeleteFlags, TRUE, None))
             /\ remote' = RemoteDelete(remote, id)
             /\ UNCHANGED failures
          \/ /\ MayFail
             /\ failures' = failures + 1
             /\ calls' = Append(calls, Call("vm.delete", id, DeleteFlags, FALSE, None))
             /\ UNCHANGED remote
    /\ pc' = AfterDestroyed(pos, Len(managed_vms)).pc
    /\ pos' = AfterDestroyed(pos, Len(managed_vms)).pos
    /\ UNCHANGED <<static, client, nextId, vm_type, idx, vm_id, stage, k, pending,
                   managed_vms, attempts, exc, exitCode>>

(***************************************************************************)
(* __exit__ and disconnect, and the end of main.                            *)
(***************************************************************************)
\* disconnect, lines 128-130 and 133-134: an exception of auth.logout skips
\* to the handler
Disconnect_Logout ==
    /\ pc = "logout"
    /\ \/ /\ calls' = Append(calls, Call("auth.logout", 0, <<>>, TRUE, None))
          /\ pc' = "close"
          /\ UNCHANGED failures
       \/ /\ MayFail
          /\ failures' = failures + 1
          /\ calls' = Append(calls, Call("auth.logout", 0, <<>>, FALSE, None))
          /\ pc' = "exit"
    /\ UNCHANGED <<static, client, remote, nextId, vm_type, idx, vm_id, stage, k,
                   pending, managed_vms, pos, attempts, exc, exitCode>>

\* disconnect, lines 131-134
Disconnect_Close ==
    /\ pc = "close"
    /\ \/ /\ client' = "closed"
          /\ UNCHANGED failures
       \/ /\ MayFail
          /\ failures' = failures + 1
          /\ client' = "close_failed"
    /\ pc' = "exit"
    /\ UNCHANGED <<static, remote, nextId, calls, vm_type, idx, vm_id, stage, k,
                   pending, managed_vms, pos, attempts, exc, exitCode>>

\* main, lines 391-401
Main_Exit ==
    /\ pc = "exit"
    /\ exitCode' = ExitCodeFor(exc)
    /\ pc' = "done"
    /\ UNCHANGED <<static, client, remote, nextId, calls, failures, vm_type, idx,
                   vm_id, stage, k, pending, managed_vms, pos, attempts, exc>>

(***************************************************************************)
(* Runs of the program.  The remote system outlives a run; everything else  *)
(* is the state of one process.                                             *)
(***************************************************************************)
Actions == {"create", "destroy"}

\* whether vm.query returned in the run and every vm.delete of the run too
DestroyedAll ==
    /\ \E i \in 1..Len(calls) : calls[i].op = "vm.query" /\ calls[i].ok
    /\ \A i \in 1..Len(calls) : calls[i].op = "vm.delete" => calls[i].ok

\* the number of vm.delete calls of the run
Deletes == Cardinality({i \in 1..Len(calls) : calls[i].op = "vm.delete"})

NoPrev == [action |-> "none", exitCode |-> 0, clean |-> FALSE, deletes |-> 0,
           remote |-> <<>>]

\* the program is started again (main, line 365: args.action)
Rerun ==
    /\ pc = "done"
    /\ runs < MaxRuns
    /\ runs' = runs + 1
    /\ prev' = [action |-> action, exitCode |-> exitCode, clean |-> DestroyedAll,
                deletes |-> Deletes, remote |-> remote]
    /\ action' \in Actions
    /\ pc' = "start"
    /\ client' = "none"
    /\ calls' = <<>>
    /\ failures' = 0
    /\ vm_type' = "none"
    /\ idx' = 0
    /\ vm_id' = 0
    /\ stage' = "none"
    /\ k' = 0
    /\ pending' = NoExc
    /\ managed_vms' = <<>>
    /\ pos' = 0
    /\ attempts' = <<>>
    /\ exc' = NoExc
    /\ exitCode' = -1
    /\ UNCHANGED <<config, templates, env, remote, nextId>>

\* names of the VMs the remote system holds before the first run
PreNames == {S_other01, S_work, S_myworker01, S_worker01, S_controlplane01}

PreVm(i, name) == [id |-> i, name |-> name, status |-> "RUNNING", devices |-> <<>>]

PreRemotes ==
    {[i \in DOMAIN f |-> PreVm(i, f[i])] :
        f \in UNION {[1..m -> PreNames] : m \in 0..MaxPre}}

\* the inputs the first run starts from
Scenarios ==
    {[action |-> "create", config |-> c, templates |-> GoodTemplates, env |-> TRUE,
      remote |-> <<>>] : c \in GoodConfigsBounded \cup DefectConfigs}
    \cup {[action |-> "create", config |-> BaseDoc, templates |-> t, env |-> TRUE,
           remote |-> <<>>] : t \in DefectTemplates}
    \cup {[action |-> a, config |-> BaseDoc, templates |-> GoodTemplates, env |-> FALSE,
           remote |-> <<>>] : a \in Actions}
    \cup {[action |-> "destroy", config |-> BaseDoc, templates |-> GoodTemplates,
           env |-> TRUE, remote |-> r] : r \in PreRemotes}

Init ==
    \E s \in Scenarios :
        /\ action = s.action
        /\ config = s.config
        /\ templates = s.templates
        /\ env = s.env
        /\ remote = s.remote
        /\ nextId = Len(s.remote) + 1
        /\ pc = "start"
        /\ client = "none"
        /\ calls = <<>>
        /\ failures = 0
        /\ vm_type = "none"
        /\ idx = 0
        /\ vm_id = 0
        /\ stage = "none"
        /\ k = 0
        /\ pending = NoExc
        /\ managed_vms = <<>>
        /\ pos = 0
        /\ attempts = <<>>
        /\ exc = NoExc
        /\ exitCode = -1
        /\ runs = 1
        /\ prev = NoPrev

Next ==
    \/ Main_Setup
    \/ Connect_Open
    \/ Connect_Login
    \/ CreateVmType_Enter
    \/ Single_Begin
    \/ VmCreate
    \/ Attach_Display
    \/ Attach_Cdrom
    \/ Attach_Nic
    \/ Attach_Disk
    \/ VmStart
    \/ Cleanup
    \/ Destroy_Query
    \/ Destroy_Poweroff
    \/ Destroy_Delete
    \/ Disconnect_Logout
    \/ Disconnect_Close
    \/ Main_Exit

\* one run of the program
Spec == Init /\ [][Next]_vars

\* the program is started again with the action destroy
RerunDestroy == Rerun /\ action' = "destroy"

InitDestroy == Init /\ action = "destroy"

NextDestroy ==
    \/ Main_Setup
    \/ Connect_Open
    \/ Connect_Login
    \/ Destroy_Query
    \/ Destroy_Poweroff
    \/ Destroy_Delete
    \/ Disconnect_Logout
    \/ Disconnect_Close
    \/ Main_Exit
    \/ RerunDestroy

\* runs of destroy, one after the other, against the same remote system
SpecDestroy == InitDestroy /\ [][NextDestroy]_vars

\* create runs of large batches: the sections have no NIC and no disk and no
\* remote call fails (the run starts with its budget of failures spent)
InitBatch ==
    \E c1 \in 0..MaxBatch, c2 \in 0..MaxCount :
        /\ action = "create"
        /\ config = Document(c1, c2, 0, 0)
        /\ templates = GoodTemplates
        /\ env = TRUE
        /\ remote = <<>>
        /\ nextId = 1
        /\ pc = "start"
        /\ client = "none"
        /\ calls = <<>>
        /\ failures = MaxFail
        /\ vm_type = "none"
        /\ idx = 0
        /\ vm_id = 0
        /\ stage = "none"
        /\ k = 0
        /\ pending = NoExc
        /\ managed_vms = <<>>
        /\ pos = 0
        /\ attempts = <<>>
        /\ exc = NoExc
        /\ exitCode = -1
        /\ runs = 1
        /\ prev = NoPrev

NextBatch ==
    \/ Main_Setup
    \/ Connect_Open
    \/ Connect_Login
    \/ CreateVmType_Enter
    \/ Single_Begin
    \/ VmCreate
    \/ Attach_Display
    \/ Attach_Cdrom
    \/ VmStart
    \/ Disconnect_Logout
    \/ Disconnect_Close
    \/ Main_Exit

SpecBatch == InitBatch /\ [][NextBatch]_vars

(***************************************************************************)
(* Properties.                                                              *)
(***************************************************************************)
\* the calls of the run issued inside the call a of _create_single_vm
AttemptCalls(a) ==
    SubSeq(calls, a.first, IF a.result = Running THEN Len(calls) ELSE a.last)

Closed(a) == a.result # Running

\* the positions of the calls of cs with an operation of ops
Positions(cs, ops) == {j \in 1..Len(cs) : cs[j].op \in ops}

\* vm.create returned in cs and a later vm.device.create or vm.start raised
FailedAfterCreate(cs) ==
    \E i \in Positions(cs, {"vm.create"}) :
        /\ cs[i].ok
        /\ \E j \in Positions(cs, {"vm.device.create", "vm.start"}) : j > i /\ ~cs[j].ok

\* the id vm.create returned in cs; 0 when it did not return
CreatedId(cs) ==
    IF \E i \in Positions(cs, {"vm.create"}) : cs[i].ok
    THEN (CHOOSE i \in Positions(cs, {"vm.create"}) : cs[i].ok) 
    ELSE 0

ReturnedId(cs) == IF CreatedId(cs) = 0 THEN 0 ELSE cs[CreatedId(cs)].ret.id

\* C1: in a call of _create_single_vm in which vm.create returned and a later
\* vm.device.create or vm.start raised, at most one vm.delete is ever issued,
\* it is for the id that vm.create returned and carries zvols = true,
\* force = true, and when the call has ended exactly one has been issued,
\* whether that delete returned or raised.
C1_OneCleanupDelete ==
    \A n \in 1..Len(attempts) :
        LET a == attempts[n]
            cs == AttemptCalls(a)
            deletes == Positions(cs, {"vm.delete"})
        IN FailedAfterCreate(cs) =>
              /\ Cardinality(deletes) <= 1
              /\ \A j \in deletes :
                    /\ cs[j].vm = ReturnedId(cs)
                    /\ cs[j].arg = [zvols |-> TRUE, force |-> TRUE]
              /\ Closed(a) => Cardinality(deletes) = 1

\* a call of _create_single_vm has ended in which an attach or the start
\* raised and the cleanup delete raised too
C1_Witness ==
    \E n \in 1..Len(attempts) :
        LET cs == AttemptCalls(attempts[n])
        IN /\ Closed(attempts[n])
           /\ FailedAfterCreate(cs)
           /\ \E j \in Positions(cs, {"vm.delete"}) : ~cs[j].ok

\* the message of the failure of the call c, as it reaches line 228: a
\* vm.device.create failure wrapped by _add_device, a vm.start failure as raised
OriginalMessage(c) ==
    IF c.op = "vm.device.create"
    THEN <<"Failed to add device ", c.arg.attributes.dtype, ": ", "vm.device.create">>
    ELSE <<"vm.start">>

\* C2: a call of _create_single_vm in which an attach or the start raised
\* ends with a TrueNASError that carries the message of that attach or start
\* failure, whether the cleanup delete returned or raised.
C2_OriginalFailurePropagates ==
    \A n \in 1..Len(attempts) :
        LET a == attempts[n]
            cs == AttemptCalls(a)
        IN \A j \in Positions(cs, {"vm.device.create", "vm.start"}) :
              (Closed(a) /\ ~cs[j].ok) =>
                  /\ a.result.cls = "TrueNASError"
                  /\ a.result.msg = <<"VM configuration failed: ">> \o OriginalMessage(cs[j])

\* a call has ended after a failed attach whose cleanup delete raised
C2_Witness ==
    \E n \in 1..Len(attempts) :
        LET cs == AttemptCalls(attempts[n])
        IN /\ Closed(attempts[n])
           /\ \E j \in Positions(cs, {"vm.device.create"}) : ~cs[j].ok
           /\ \E j \in Positions(cs, {"vm.delete"}) : ~cs[j].ok

\* the devices _create_vm_devices is to attach to the VM of the call a, in
\* the order display, cdrom, NICs in declared order, disks in declared order
ExpectedDevices(a) ==
    LET section == config[a.vm_type]
        network == GetOr(section, "network", <<>>)
        disk == GetOr(section, "disk", <<>>)
    IN  <<[vm |-> a.vm_id,
           attributes |-> [dtype |-> "DISPLAY", port |-> a.port, password |-> VncPassword]],
          [vm |-> a.vm_id,
           attributes |-> [dtype |-> "CDROM", path |-> config["storage"]["cdrom_path"]]]>>
        \o [i \in 1..Len(network) |->
              [vm |-> a.vm_id, attributes |-> [dtype |-> "NIC", nic_attach |-> network[i]]]]
        \o [i \in 1..Len(disk) |->
              [vm |-> a.vm_id,
               attributes |-> [dtype |-> "DISK",
                               zvol_name |-> ZvolName(config["storage"]["pool_path"],
                                                      a.name, i - 1),
                               zvol_volsize |-> SizeBytes(disk[i])]]]

\* the vm.device.create calls among cs, in order
DeviceCalls(cs) == SelectSeq(cs, LAMBDA c : c.op = "vm.device.create")

\* C3: in every call of _create_single_vm the vm.device.create calls issued so
\* far are, in order, the first devices of: display, cdrom, one NIC per entry
\* of network, one disk per entry of disk; every one before the last returned,
\* and every one carries the id that vm.create returned in that call.
C3_DeviceOrder ==
    \A n \in 1..Len(attempts) :
        LET a == attempts[n]
            cs == AttemptCalls(a)
            ds == DeviceCalls(cs)
            expected == ExpectedDevices(a)
        IN /\ Len(ds) <= Len(expected)
           /\ \A j \in 1..Len(ds) :
                /\ ds[j].arg = expected[j]
                /\ ds[j].arg.vm = ReturnedId(cs)
                /\ ReturnedId(cs) # 0
                /\ j < Len(ds) => ds[j].ok

\* a call attached the display, the cdrom, a NIC and two disks
C3_Witness ==
    \E n \in 1..Len(attempts) :
        LET ds == DeviceCalls(AttemptCalls(attempts[n]))
        IN /\ Len(ds) >= 5
           /\ \A j \in 1..Len(ds) : ds[j].ok
           /\ Len(config[attempts[n].vm_type]["network"]) >= 1
           /\ Len(config[attempts[n].vm_type]["disk"]) >= 2
           /\ Len(ds) = Len(ExpectedDevices(attempts[n]))

\* the body of the with statement of a create run is over
AfterBody == pc \in {"logout", "close", "exit", "done"}

\* create_vm_type(t) was called in this run and has returned or raised
Finished(t) ==
    /\ action = "create"
    /\ \/ t = "controlplane" /\ vm_type = "worker"
       \/ vm_type = t /\ AfterBody

SectionsPresent(t) ==
    /\ load_configuration(config) = NoExc
    /\ ~Falsy(Get(config, t))
    /\ ~Falsy(Get(config, "storage"))

\* the one-based indices of the calls of _create_single_vm for type t, in order
RECURSIVE AttemptIndices(_, _)
AttemptIndices(t, n) ==
    IF n = 0 THEN <<>>
    ELSE IF attempts[n].vm_type = t
         THEN Append(AttemptIndices(t, n - 1), attempts[n].index)
         ELSE AttemptIndices(t, n - 1)

Max0(n) == IF n > 0 THEN n ELSE 0

\* C4 (as claimed): when create_vm_type has ended for a type whose section
\* and the storage section are present, _create_single_vm was called for the
\* indices 1..max(count, 0), each once, in increasing order, whatever the
\* outcome of each call.
C4_ExactlyCountAttempts ==
    \A t \in {"controlplane", "worker"} :
        (Finished(t) /\ SectionsPresent(t)) =>
            AttemptIndices(t, Len(attempts)) = [i \in 1..Max0(Count(t)) |-> i]

\* whether the derivation of the VM specification of the type succeeds
DerivationOk(t) == create_vm_spec(templates, VmName(t, 0), config[t]).ok

\* the VM of the remote system with the id, as a set of at most one element
RemoteVm(id) == {remote[i] : i \in {j \in 1..Len(remote) : remote[j].id = id}}

DTypes(devices) == [i \in 1..Len(devices) |-> devices[i].attributes.dtype]

Shape(cs) == [j \in 1..Len(cs) |-> <<cs[j].op, cs[j].ok>>]

\* vm.create, every device and vm.start, each returned, in that order
SuccessShape(a) ==
    <<<<"vm.create", TRUE>>>>
    \o [j \in 1..Len(ExpectedDevices(a)) |-> <<"vm.device.create", TRUE>>]
    \o <<<<"vm.start", TRUE>>>>

\* C6: a call of _create_single_vm that has ended either returned, and then
\* its calls were vm.create, the attach of every device in order and last a
\* single vm.start, all of which returned; or it raised, and then, if its
\* vm.create returned, it issued a vm.delete for the id vm.create returned.
C6_ConfiguredOrRemovalAttempted ==
    \A n \in 1..Len(attempts) :
        LET a == attempts[n]
            cs == AttemptCalls(a)
        IN Closed(a) =>
            IF a.result = NoExc
            THEN /\ Shape(cs) = SuccessShape(a)
                 /\ DeviceCalls(cs) =
                       [j \in 1..Len(ExpectedDevices(a)) |->
                           Call("vm.device.create", a.vm_id, ExpectedDevices(a)[j], TRUE, None)]
                 /\ cs[Len(cs)].vm = ReturnedId(cs)
            ELSE ReturnedId(cs) # 0 =>
                    \E j \in Positions(cs, {"vm.delete"}) :
                        /\ cs[j].vm = ReturnedId(cs)
                        /\ j > CreatedId(cs)

\* one call returned with its VM started, another raised after vm.start
\* failed and its delete was attempted and failed
C6_Witness ==
    /\ \E n \in 1..Len(attempts) :
          attempts[n].result = NoExc /\ Len(AttemptCalls(attempts[n])) >= 4
    /\ \E n \in 1..Len(attempts) :
          LET cs == AttemptCalls(attempts[n])
          IN /\ Closed(attempts[n])
             /\ attempts[n].result # NoExc
             /\ \E j \in Positions(cs, {"vm.start"}) : ~cs[j].ok
             /\ \E j \in Positions(cs, {"vm.delete"}) : ~cs[j].ok

\* C7: a call of _create_single_vm whose vm.create raised issued no other
\* call (no vm.device.create, vm.start or vm.delete), ended with the
\* TrueNASError of the failed creation, and the loop of create_vm_type went on:
\* the exception did not leave create_vm_type, and the next index, if there
\* is one, is the next call or about to be.
C7_CreateFailureAborts ==
    \A n \in 1..Len(attempts) :
        LET a == attempts[n]
            cs == AttemptCalls(a)
        IN (\E j \in Positions(cs, {"vm.create"}) : ~cs[j].ok) =>
              /\ Closed(a)
              /\ Shape(cs) = <<<<"vm.create", FALSE>>>>
              /\ a.result = TrueNASError(<<"VM creation failed: ", "vm.create">>)
              /\ exc # a.result
              /\ a.index < Count(a.vm_type) =>
                    IF n = Len(attempts)
                    THEN pc = "single" /\ vm_type = a.vm_type /\ idx = a.index
                    ELSE /\ attempts[n + 1].vm_type = a.vm_type
                         /\ attempts[n + 1].index = a.index + 1
              /\ (a.index >= Count(a.vm_type) /\ a.vm_type = "controlplane") =>
                    vm_type = "worker"

\* the vm.create of the first of two instances raised and the second
\* instance has been created
C7_Witness ==
    \E n \in 1..Len(attempts) :
        /\ n < Len(attempts)
        /\ Shape(AttemptCalls(attempts[n])) = <<<<"vm.create", FALSE>>>>
        /\ attempts[n + 1].vm_type = attempts[n].vm_type
        /\ attempts[n + 1].vm_id # 0

\* the name begins with the characters of the prefix
HasPrefix(name, p) == Len(p) <= Len(name) /\ \A i \in 1..Len(p) : name[i] = p[i]

Matches(name) == HasPrefix(name, S_controlplane) \/ HasPrefix(name, S_worker)

\* the position of the vm.query of the run that returned; 0 when there is none
QueryPos ==
    IF \E q \in 1..Len(calls) : calls[q].op = "vm.query" /\ calls[q].ok
    THEN CHOOSE q \in 1..Len(calls) : calls[q].op = "vm.query" /\ calls[q].ok
    ELSE 0

\* the VMs vm.query returned
Queried == IF QueryPos = 0 THEN <<>> ELSE calls[QueryPos].ret

\* the VMs vm.query returned whose name begins with a prefix, in query order
Matched == SelectSeq(Queried, LAMBDA vm : Matches(vm.name))

\* C8: in a destroy run every vm.poweroff and vm.delete is for a VM that
\* vm.query returned and whose name begins with controlplane or worker, and
\* when destroy_managed_vms has returned every such VM has had a vm.delete.
C8_ExactlyPrefixed ==
    action = "destroy" =>
        /\ \A j \in Positions(calls, {"vm.poweroff", "vm.delete"}) :
              /\ QueryPos # 0
              /\ QueryPos < j
              /\ \E i \in 1..Len(Queried) :
                    Queried[i].id = calls[j].vm /\ Matches(Queried[i].name)
        /\ (AfterBody /\ QueryPos # 0) =>
              \A i \in 1..Len(Queried) :
                  Matches(Queried[i].name) =>
                      \E j \in Positions(calls, {"vm.delete"}) : calls[j].vm = Queried[i].id

\* destroy_managed_vms has returned; vm.query had returned a VM whose name
\* begins with a prefix, which got its delete, and one whose name only
\* contains a prefix, which got no call
C8_Witness ==
    /\ action = "destroy"
    /\ AfterBody
    /\ \E i \in 1..Len(Queried) : Queried[i].name = S_myworker01
    /\ \E i \in 1..Len(Queried) :
          /\ Queried[i].name = S_worker01
          /\ \E j \in Positions(calls, {"vm.delete"}) : calls[j].vm = Queried[i].id

\* the vm.poweroff and vm.delete calls of the run, in order
TeardownCalls == SelectSeq(calls, LAMBDA c : c.op \in {"vm.poweroff", "vm.delete"})

\* C9: in a destroy run the vm.poweroff and vm.delete calls are, for the
\* matched VMs in query order, one vm.poweroff and then one vm.delete with
\* zvols = true, force = true, whatever the outcome of any of them; when
\* destroy_managed_vms has ended all of them have been issued and it has
\* not raised.
C9_PoweroffThenDelete ==
    (action = "destroy" /\ QueryPos # 0) =>
        /\ Len(TeardownCalls) <= 2 * Len(Matched)
        /\ \A j \in 1..Len(TeardownCalls) :
              /\ TeardownCalls[j].vm = Matched[(j + 1) \div 2].id
              /\ IF j % 2 = 1
                 THEN TeardownCalls[j].op = "vm.poweroff"
                 ELSE /\ TeardownCalls[j].op = "vm.delete"
                      /\ TeardownCalls[j].arg = [zvols |-> TRUE, force |-> TRUE]
        /\ AfterBody =>
              /\ Len(TeardownCalls) = 2 * Len(Matched)
              /\ exc = NoExc
        /\ pc = "done" => exitCode = 0

\* destroy_managed_vms has returned after two matched VMs, the poweroff and
\* the delete of the first of which raised
C9_Witness ==
    /\ action = "destroy"
    /\ AfterBody
    /\ Len(Matched) >= 2
    /\ Len(TeardownCalls) = 4
    /\ ~TeardownCalls[1].ok
    /\ ~TeardownCalls[2].ok
    /\ TeardownCalls[4].ok

\* C10: when vm.query returned no VM whose name begins with a prefix, the run
\* issues no vm.poweroff and no vm.delete, destroy_managed_vms does not raise
\* and the process exits with 0; a destroy run that follows a destroy run in
\* which vm.query and every vm.delete returned issues no vm.poweroff and no
\* vm.delete and leaves the remote system as it found it.
C10_NoMatchNoOp ==
    /\ (action = "destroy" /\ QueryPos # 0 /\ Len(Matched) = 0) =>
          /\ TeardownCalls = <<>>
          /\ exc = NoExc
          /\ pc = "done" => exitCode = 0
    /\ (action = "destroy" /\ prev.action = "destroy" /\ prev.clean) =>
          /\ TeardownCalls = <<>>
          /\ remote = prev.remote

\* the second of two destroy runs has exited with 0 after a query that
\* returned VMs, none of them matched; the first run had deleted a VM
C10_Witness ==
    /\ action = "destroy"
    /\ prev.action = "destroy"
    /\ prev.clean
    /\ prev.deletes >= 1
    /\ QueryPos # 0
    /\ Len(Queried) >= 1
    /\ pc = "done"
    /\ exitCode = 0

\* auth.login returned true in this run: the body of the with statement ran
LoggedIn == \E j \in Positions(calls, {"auth.login"}) : calls[j].ok /\ calls[j].ret = TRUE

\* disconnect has been called and has returned
Disconnected == pc \in {"exit", "done"} /\ LoggedIn

\* client.close() was called on the handle, whether it returned or raised
CloseCalled == client \in {"closed", "close_failed"}

\* C11 (as claimed): when disconnect has returned, client.close() has been
\* called on the transport handle, both when auth.logout returned and when
\* auth.logout raised.
C11_LogoutFailureStillCloses ==
    Disconnected =>
        /\ Positions(calls, {"auth.logout"}) # {}
        /\ CloseCalled

\* C12 (as claimed): on every way out of the body of the with statement,
\* normal or by an exception, the release has run exactly once, that is one
\* auth.logout was attempted and client.close() was called, and the failure
\* the run ends with is never one raised by the release.
C12_ReleaseExactlyOnce ==
    Disconnected =>
        /\ Cardinality(Positions(calls, {"auth.logout"})) = 1
        /\ CloseCalled
        /\ exc # NoExc => /\ exc.cls # CallError("auth.logout").cls
                          /\ exc.msg # CallError("auth.logout").msg

\* the remote operations that change the remote system
Mutations == {"vm.create", "vm.device.create", "vm.start", "vm.poweroff", "vm.delete"}

\* e is raised because of the configuration document: by load_configuration,
\* by a section that is missing or empty, or by a field of a section that
\* is missing
IsConfigError(e) ==
    \/ e.cls \in {"FileNotFoundError", "ValueError", "TypeError"}
    \/ e.cls = "KeyError" /\ e.msg[1] \in {"cpu", "memory", "network", "disk"}
    \/ /\ e.cls = "TrueNASError"
       /\ e.msg[1] \in {"VM type not found in configuration: ",
                        "Storage configuration not found in config"}

\* C13 (as claimed): whenever an error of the configuration document is
\* raised, a missing or empty section or a missing cpu, memory, network or
\* disk field, in whichever section, no remote operation that changes the
\* remote system has been issued in the run, and the run ends with a
\* non-zero exit code.
C13_ConfigErrorBeforeMutation ==
    (IsConfigError(exc) \/ IsConfigError(pending)) =>
        /\ Positions(calls, Mutations) = {}
        /\ pc = "done" => exitCode # 0

\* e belongs to a fatal class: configuration or environment, template load,
\* connection or login, or the query of the VMs
IsFatal(e) ==
    \/ IsConfigError(e)
    \/ /\ e.cls = "TrueNASError"
       /\ e.msg[1] \in {"Template file not found: ", "Invalid JSON in template file ",
                        "Connection failed: ", "Failed to query VMs: "}

\* the batch of type t ran to its end: one call of _create_single_vm for
\* each index, each of them returned or raised the per-instance failure
BatchCompleted(t) ==
    /\ SectionsPresent(t)
    /\ AttemptIndices(t, Len(attempts)) = [i \in 1..Max0(Count(t)) |-> i]
    /\ \A n \in 1..Len(attempts) :
          attempts[n].vm_type = t =>
              attempts[n].result = NoExc \/ attempts[n].result.cls = "TrueNASError"

\* the run went through the whole of its action
RunCompleted ==
    /\ LoggedIn
    /\ action = "create" => BatchCompleted("controlplane") /\ BatchCompleted("worker")
    /\ action = "destroy" => QueryPos # 0 /\ Len(TeardownCalls) = 2 * Len(Matched)

\* a remote call of an instance or of a VM failed in this run
AbsorbedFailure ==
    \E j \in Positions(calls, Mutations) : ~calls[j].ok

\* C14: the process exits with 0 exactly when the run went through the whole
\* of its action, failed and absorbed instances or VMs included, and with a
\* non-zero code only for a failure of a fatal class (configuration,
\* template load, connection or login, query); the failure of a remote call
\* of one instance or one VM never gives a non-zero exit code.
C14_ExitCode ==
    pc = "done" =>
        /\ exitCode \in {0, 1}
        /\ exitCode = 0 <=> RunCompleted
        /\ exitCode # 0 => IsFatal(exc)
        /\ (RunCompleted /\ AbsorbedFailure) => exitCode = 0

\* a create run in which an instance failed and a VM was configured has
\* exited with 0
C14_Witness ==
    /\ pc = "done"
    /\ action = "create"
    /\ exitCode = 0
    /\ \E n \in 1..Len(attempts) : attempts[n].result.cls = "TrueNASError"
    /\ \E n \in 1..Len(attempts) : attempts[n].result = NoExc

\* the positions in the log of the auth.login calls that raised or returned
\* false
LoginFailures ==
    {j \in Positions(calls, {"auth.login"}) : ~calls[j].ok \/ calls[j].ret # TRUE}

\* C15: a login that raised or was rejected is the last remote call of the
\* run: no create or destroy operation follows, the run has ended with the
\* failure "Connection failed" and a non-zero exit code; a vm.query that
\* raised makes destroy_managed_vms raise "Failed to query VMs" with no
\* vm.poweroff and no vm.delete issued, and the run exits non-zero.
C15_ConnectionFailuresFatal ==
    /\ LoginFailures # {} =>
          /\ LoginFailures = {Len(calls)}
          /\ attempts = <<>>
          /\ pc = "done"
          /\ exc.cls = "TrueNASError"
          /\ exc.msg[1] = "Connection failed: "
          /\ exitCode = 1
    /\ (\E j \in Positions(calls, {"vm.query"}) : ~calls[j].ok) =>
          /\ Positions(calls, Mutations) = {}
          /\ Cardinality(Positions(calls, {"vm.query"})) = 1
          /\ exc = TrueNASError(<<"Failed to query VMs: ", "vm.query">>)
          /\ pc = "done" => exitCode = 1

\* a destroy run against a system with a managed VM has ended after its
\* vm.query raised
C15_Witness ==
    /\ pc = "done"
    /\ action = "destroy"
    /\ \E i \in 1..Len(remote) : Matches(remote[i].name)
    /\ \E j \in Positions(calls, {"vm.query"}) : ~calls[j].ok

\* a template file is missing, is not JSON, or is a device blueprint without
\* the attributes submapping
TemplateDefect(files) ==
    \E kind \in DOMAIN files :
        \/ files[kind] \in {FileMissing, JsonError}
        \/ kind # "vm" /\ "attributes" \notin DOMAIN files[kind]

\* C16 (as claimed): with a defective template, a device blueprint without
\* its attributes submapping included, the run ends at the load of the
\* templates with a template error: no connection is opened and no remote
\* call is issued.
C16_TemplateDefectAtLoad ==
    (TemplateDefect(templates) /\ env /\ load_configuration(config) = NoExc /\ pc # "start") =>
        /\ pc = "done"
        /\ exc.cls = "TrueNASError"
        /\ exc.msg[1] \in {"Template file not found: ", "Invalid JSON in template file "}
        /\ client = "none"
        /\ calls = <<>>

\* the vm.create calls and the display-device calls issued inside the call a
\* of _create_single_vm
CreateCallsOf(a) == SelectSeq(AttemptCalls(a), LAMBDA c : c.op = "vm.create")
DisplayCallsOf(a) ==
    SelectSeq(AttemptCalls(a),
              LAMBDA c : c.op = "vm.device.create" /\ c.arg.attributes.dtype = "DISPLAY")

\* the two decimal digits of an index below 100
TwoDigits(i) == <<DigitChars[(i \div 10) + 1], DigitChars[(i % 10) + 1]>>

\* C17: the instance of one-based index i of a batch is created under the
\* name made of the type and i zero-padded to two digits, and its display
\* device carries the port base + i, the base being 5910 for controlplane
\* and 5920 for worker; two instances of one batch never have the same name
\* or the same port.
C17_NameAndPort ==
    \A n \in 1..Len(attempts) :
        LET a == attempts[n]
            base == IF a.vm_type = "controlplane" THEN 5910 ELSE 5920
            typeChars == IF a.vm_type = "controlplane" THEN S_controlplane ELSE S_worker
        IN /\ a.index < 100
           /\ \A j \in 1..Len(CreateCallsOf(a)) :
                 CreateCallsOf(a)[j].arg.name = typeChars \o TwoDigits(a.index)
           /\ \A j \in 1..Len(DisplayCallsOf(a)) :
                 DisplayCallsOf(a)[j].arg.attributes.port = base + a.index
           /\ \A m \in 1..Len(attempts) :
                 (m # n /\ attempts[m].vm_type = a.vm_type) =>
                     /\ \A i \in 1..Len(CreateCallsOf(a)), j \in 1..Len(CreateCallsOf(attempts[m])) :
                           CreateCallsOf(a)[i].arg.name # CreateCallsOf(attempts[m])[j].arg.name
                     /\ \A i \in 1..Len(DisplayCallsOf(a)), j \in 1..Len(DisplayCallsOf(attempts[m])) :
                           DisplayCallsOf(a)[i].arg.attributes.port
                               # DisplayCallsOf(attempts[m])[j].arg.attributes.port

\* the tenth controlplane instance has been created and has its display
\* device, after the nine before it
C17_Witness ==
    \E n \in 1..Len(attempts) :
        /\ attempts[n].vm_type = "controlplane"
        /\ attempts[n].index = 10
        /\ Len(CreateCallsOf(attempts[n])) = 1
        /\ Len(DisplayCallsOf(attempts[n])) = 1
        /\ n = 10

\* C19 (as claimed): in a create run no two instances, of the same type or
\* of different types, have display devices with the same port, whatever
\* the two configured counts.
C19_NoSharedPort ==
    \A m, n \in 1..Len(attempts) :
        m # n =>
            \A i \in 1..Len(DisplayCallsOf(attempts[m])), j \in 1..Len(DisplayCallsOf(attempts[n])) :
                DisplayCallsOf(attempts[m])[i].arg.attributes.port
                    # DisplayCallsOf(attempts[n])[j].arg.attributes.port

\* the disk-device calls issued inside the call a of _create_single_vm
DiskCallsOf(a) ==
    SelectSeq(AttemptCalls(a),
              LAMBDA c : c.op = "vm.device.create" /\ c.arg.attributes.dtype = "DISK")

\* the digits of n >= 0 in base 2^15, least significant first
RECURSIVE Digits15(_)
Digits15(n) == IF n < 32768 THEN <<n>> ELSE <<n % 32768>> \o Digits15(n \div 32768)

\* C18: the j-th disk device of a VM, j counted from 1 among the disk
\* devices of that VM alone, carries zvol_name = pool_path "/" vm_name
\* "-disk" (j - 1) and zvol_volsize = size_gb * 1073741824 exactly, size_gb
\* being the j-th entry of the disk mapping of the type: 1073741824 is
\* (2^15)^2, so the product is the digits of size_gb in base 2^15 above two
\* zero digits.
C18_DiskNameAndSize ==
    /\ 32768 * 32768 = 1073741824
    /\ \A n \in 1..Len(attempts) :
          LET a == attempts[n]
              ds == DiskCallsOf(a)
              name == CreateCallsOf(a)[1].arg.name
          IN \A j \in 1..Len(ds) :
                /\ j <= 10
                /\ ds[j].arg.attributes.zvol_name =
                      config["storage"]["pool_path"] \o <<"/">> \o name
                          \o <<"-", "d", "i", "s", "k", DigitChars[j]>>
                /\ ds[j].arg.attributes.zvol_volsize =
                      <<0, 0>> \o Digits15(config[a.vm_type]["disk"][j])

\* a VM with a NIC and two disks, the second of them of 2^15 GB or more,
\* has been configured and started
C18_Witness ==
    \E n \in 1..Len(attempts) :
        /\ attempts[n].result = NoExc
        /\ Len(config[attempts[n].vm_type]["network"]) >= 1
        /\ Len(DiskCallsOf(attempts[n])) = 2
        /\ config[attempts[n].vm_type]["disk"][2] >= 32768

\* C20 (as claimed): when the run has ended, the transport handle is not
\* open: a handle that connect opened has had client.close() called on it,
\* also when auth.login was rejected or raised.
C20_NoOpenHandleAtEnd ==
    pc = "done" => client \in {"none", "closed", "close_failed"}

====
